---- MODULE Spec2Model ----
(***************************************************************************)
(* Travel-companion backend: the token-verification middleware             *)
(* (firebaseAdmin.js, src/unnamed/part_000) and the route handlers of      *)
(* src/api/index.js, as a state machine over the relational store.         *)
(*                                                                         *)
(* A request occupies a slot and moves through                             *)
(*   idle -> verifyToken -> connect -> query [-> update] -> done           *)
(* one step per await of the source; every SQL statement is one atomic     *)
(* step.  JSON values are strings: "UNDEF" is a field that is absent from  *)
(* the body (JS undefined), "NULL" is JSON null / SQL NULL, "true" and     *)
(* "false" are the JSON booleans, digit strings are numbers.               *)
(***************************************************************************)
EXTENDS Integers, Sequences, FiniteSets, TLC

\* ---------------------------------------------------------------- bounds
MaxTrips == 2
MaxDests == 1
MaxPhotos == 1
MaxInflight == 2
MaxSeeded == 40
MaxListed == 3

\* ---------------------------------------------------------------- values
UNDEF == "UNDEF"
NULL == "NULL"

Subjects == {"u1", "u2"}
Slots == 1..MaxInflight
TripIds == 1..MaxTrips
DestIds == 1..MaxDests
PhotoIds == 1..MaxPhotos

\* What the identity provider decodes each token it accepts to; every other
\* token makes admin.auth().verifyIdToken throw.
IdTokens ==
    [t \in {"tok-u1-a", "tok-u1-b", "tok-u2"} |->
        CASE t = "tok-u1-a" -> [uid |-> "u1", email |-> "a@u1"]
          [] t = "tok-u1-b" -> [uid |-> "u1", email |-> "b@u1"]
          [] OTHER -> [uid |-> "u2", email |-> "c@u2"]]

\* Authorization headers, as the words authHeader.split(" ") yields; <<>> is
\* a request without the header.
AuthHeaders ==
    {<<>>, <<"Basic", "tok-u1-a">>, <<"Bearer", "forged">>}
        \cup {<<"Bearer", t>> : t \in DOMAIN IdTokens}

NoUser == [uid |-> "NONE", email |-> "NONE"]
NoBody == [none |-> TRUE]
NoResp == [none |-> TRUE]

\* ----------------------------------------------------------------- state
VARIABLES
    users,          \* table users: rows [firebase_uid, email]
    trips,          \* table trips
    destinations,   \* table destinations
    photos,         \* table photos
    user_profiles,  \* table user_profiles
    nextTripId,     \* the serial behind trips.id
    nextDestId,     \* the serial behind destinations.id
    nextPhotoId,    \* the serial behind photos.id
    reqs,           \* the requests in flight, by slot
    checkedOut,     \* clients of the handlers' pool checked out and not released
    storeUp         \* whether the store answers (environment)

tables == <<users, trips, destinations, photos, user_profiles>>
serials == <<nextTripId, nextDestId, nextPhotoId>>
vars == <<tables, serials, reqs, checkedOut, storeUp>>

Idle ==
    [pc |-> "idle", route |-> "-", header |-> <<>>, id |-> 0, body |-> NoBody,
     user |-> NoUser, status |-> 0, resp |-> NoResp]

Init ==
    /\ users = {}
    /\ trips = {}
    /\ destinations = {}
    /\ photos = {}
    /\ user_profiles = {}
    /\ nextTripId = 1
    /\ nextDestId = 1
    /\ nextPhotoId = 1
    /\ reqs = [s \in Slots |-> Idle]
    /\ checkedOut = 0
    /\ storeUp = TRUE

\* ------------------------------------------------------------ JS helpers
\* A query parameter: pg sends undefined as NULL.
Param(v) == IF v = UNDEF THEN NULL ELSE v

\* A destructuring default `x = d`: taken only when the field is undefined.
Default(v, d) == IF v = UNDEF THEN d ELSE v

\* --------------------------------------------------------- the middleware
\* The header test without the scheme: any two-word header passes.
NoBearerAnyScheme(authHeader) == ~(Len(authHeader) >= 2)

\* !authHeader || !authHeader.startsWith("Bearer ")
NoBearer(authHeader) ==
    ~(Len(authHeader) >= 2 /\ authHeader[1] = "Bearer")

\* The insert as an upsert: ON CONFLICT (firebase_uid) DO UPDATE SET email.
InsertUserSqlDoUpdate(tbl, uid, email) ==
    {u \in tbl : u.firebase_uid # uid} \cup {[firebase_uid |-> uid, email |-> email]}

\* INSERT INTO users (firebase_uid, email) VALUES ($1, $2)
\*   ON CONFLICT (firebase_uid) DO NOTHING
InsertUserSql(tbl, uid, email) ==
    IF \E u \in tbl : u.firebase_uid = uid
      THEN tbl
      ELSE tbl \cup {[firebase_uid |-> uid, email |-> email]}

\* res.status(code).json(body): the request is answered.
Answered(r, code, body) == [r EXCEPT !.pc = "done", !.status = code, !.resp = body]

\* A request arrives on a protected route and enters the middleware.
Arrive(s, route, header, id, body) ==
    /\ reqs[s].pc = "idle"
    /\ reqs' = [reqs EXCEPT ![s] =
          [Idle EXCEPT !.pc = "verifyToken", !.route = route, !.header = header,
                       !.id = id, !.body = body]]
    /\ UNCHANGED <<tables, serials, checkedOut, storeUp>>

\* The inner try/catch around pool.query: a store error is logged and
\* swallowed, the table is left as it was.
TryInsertUser(tbl, up, uid, email) ==
    IF up THEN InsertUserSql(tbl, uid, email) ELSE tbl

\* The middleware without its inner try/catch: the failed insert lands in
\* the outer catch and the request is answered 401.
AuthenticatedOrRejected(r, decodedToken, up) ==
    IF up
      THEN [r EXCEPT !.pc = "connect",
                     !.user = [uid |-> decodedToken.uid, email |-> decodedToken.email]]
      ELSE [r EXCEPT !.pc = "done", !.status = 401,
                     !.resp = [error |-> "Unauthorized: Invalid token"]]

\* req.user = { uid, email } and, after the inner try/catch, next(): the
\* handler is entered whether or not the insert went through.
Authenticated(r, decodedToken, up) ==
    [r EXCEPT !.pc = "connect",
              !.user = [uid |-> decodedToken.uid, email |-> decodedToken.email]]

verifyToken(s) ==
    /\ reqs[s].pc = "verifyToken"
    /\ LET r == reqs[s]
           authHeader == r.header
       IN  IF NoBearer(authHeader)
             THEN /\ reqs' = [reqs EXCEPT ![s] =
                        Answered(r, 401, [error |-> "Unauthorized: No token provided"])]
                  /\ UNCHANGED users
             ELSE LET token == authHeader[2]
                  IN  IF token \notin DOMAIN IdTokens
                        THEN /\ reqs' = [reqs EXCEPT ![s] =
                                   Answered(r, 401, [error |-> "Unauthorized: Invalid token"])]
                             /\ UNCHANGED users
                        ELSE LET decodedToken == IdTokens[token]
                             IN  /\ users' = TryInsertUser(users, storeUp,
                                                decodedToken.uid, decodedToken.email)
                                 /\ reqs' = [reqs EXCEPT ![s] =
                                       Authenticated(r, decodedToken, storeUp)]
    /\ UNCHANGED <<trips, destinations, photos, user_profiles, serials,
                   checkedOut, storeUp>>

\* ------------------------------------------------------ handler plumbing
\* const client = await pool.connect(): the first line of every handler,
\* outside its try block.
poolConnect(s) ==
    /\ reqs[s].pc = "connect"
    /\ IF storeUp
         THEN /\ reqs' = [reqs EXCEPT ![s].pc = "query"]
              /\ checkedOut' = checkedOut + 1
         ELSE /\ reqs' = [reqs EXCEPT ![s].pc = "hung"]
              /\ UNCHANGED checkedOut
    /\ UNCHANGED <<tables, serials, storeUp>>

\* catch (err) { res.status(500).json({ error: err.message }) }
StoreError == [error |-> "store error"]

\* The socket of an answered (or abandoned) request closes.
Close(s) ==
    /\ reqs[s].pc \in {"done", "hung"}
    /\ reqs' = [reqs EXCEPT ![s] = Idle]
    /\ UNCHANGED <<tables, serials, checkedOut, storeUp>>

\* The store goes away or comes back.
StoreFlip ==
    /\ storeUp' = ~storeUp
    /\ UNCHANGED <<tables, serials, reqs, checkedOut>>

\* ------------------------------------------------------------ JS coercions
\* Number(v) in tenths, for the values the bodies carry; NaN has no number.
IsNaN(v) == v \notin {NULL, "", "0", "1", "2", "2.5", "3", "4", "5", "6", "7",
                       "100", "250"}

Tenths(v) ==
    CASE v \in {NULL, "", "0"} -> 0
      [] v = "1" -> 10  [] v = "2" -> 20  [] v = "2.5" -> 25  [] v = "3" -> 30
      [] v = "4" -> 40  [] v = "5" -> 50  [] v = "6" -> 60    [] v = "7" -> 70
      [] v = "100" -> 1000
      [] OTHER -> 2500

\* a < n and a > n of JS: false as soon as a side is NaN.
JsLess(v, n) == ~IsNaN(v) /\ Tenths(v) < 10 * n
JsGreater(v, n) == ~IsNaN(v) /\ Tenths(v) > 10 * n

\* parseInt(v): the leading integer of String(v), else NaN.
parseInt(v) ==
    CASE v \in {"0", "1", "2", "3", "4", "5", "6", "7", "100", "250"} -> v
      [] v = "2.5" -> "2"
      [] OTHER -> "NaN"

\* parseFloat(v): the leading decimal of String(v), else NaN.
parseFloat(v) ==
    IF v \in {"0", "1", "2", "2.5", "3", "4", "5", "6", "7", "100", "250"}
      THEN v ELSE "NaN"

\* Truthiness: undefined, null, "", 0, false and NaN are falsy.
Truthy(v) == v \notin {UNDEF, NULL, "", "0", "false", "NaN"}

\* Boolean(v), as the JSON boolean it yields.
Boolean(v) == IF Truthy(v) THEN "true" ELSE "false"

\* ------------------------------------------------------------------ trips
\* Column types of trips (spec section 3): an integer column takes NULL or
\* an integer literal, a decimal column also a decimal literal and NaN.
IntegerColumn(v) ==
    v \in {NULL, "0", "1", "2", "3", "4", "5", "6", "7", "100", "250"}

DecimalColumn(v) == IntegerColumn(v) \/ v \in {"2.5", "NaN"}

TripRowAccepted(row) ==
    /\ DecimalColumn(row.budget)
    /\ IntegerColumn(row.traveler_count)
    /\ IntegerColumn(row.trip_rating)

TripById(tbl, id) == {t \in tbl : t.id = id}

\* Bodies of POST /trips.
JapanTrip ==
    [title |-> "Japan", country |-> "JP", city |-> "Tokyo",
     start_date |-> "2025-04-01", end_date |-> "2025-04-10", notes |-> "sakura",
     image_url |-> "japan.png", trip_type |-> "business", budget |-> "100",
     traveler_count |-> "2", user_firebase_uid |-> UNDEF]

\* A body that leaves the optional fields out and names an owner of its own.
PeruTrip ==
    [title |-> "Peru", country |-> UNDEF, city |-> UNDEF,
     start_date |-> "2025-06-01", end_date |-> UNDEF, notes |-> UNDEF,
     image_url |-> UNDEF, trip_type |-> UNDEF, budget |-> UNDEF,
     traveler_count |-> UNDEF, user_firebase_uid |-> "u2"]

PostTripBodies == {JapanTrip, PeruTrip}

\* Bodies of PUT /trips/:id: every field given, and the core fields alone.
KyotoUpdate ==
    [title |-> "Kyoto", country |-> "JP", city |-> "Kyoto",
     start_date |-> "2025-04-01", end_date |-> "2025-04-10", notes |-> "temples",
     image_url |-> "kyoto.png", trip_type |-> "adventure", budget |-> "250",
     traveler_count |-> "3", is_favorite |-> "true", trip_rating |-> "4"]

LimaCoreUpdate ==
    [title |-> "Lima", country |-> "PE", city |-> "Lima",
     start_date |-> "2025-06-01", end_date |-> "2025-06-01", notes |-> NULL,
     image_url |-> NULL, trip_type |-> UNDEF, budget |-> UNDEF,
     traveler_count |-> UNDEF, is_favorite |-> UNDEF, trip_rating |-> UNDEF]

\* The core fields with a budget and a rating, the other enrichment fields
\* left out.
OsakaUpdate ==
    [title |-> "Osaka", country |-> "JP", city |-> "Osaka",
     start_date |-> "2025-04-02", end_date |-> "2025-04-10", notes |-> NULL,
     image_url |-> NULL, trip_type |-> UNDEF, budget |-> "250",
     traveler_count |-> UNDEF, is_favorite |-> UNDEF, trip_rating |-> "3"]

\* Every field given, with a rating above the range.
SeoulUpdate ==
    [title |-> "Seoul", country |-> "KR", city |-> "Seoul",
     start_date |-> "2025-05-01", end_date |-> "2025-05-05", notes |-> NULL,
     image_url |-> NULL, trip_type |-> "business", budget |-> "100",
     traveler_count |-> "2", is_favorite |-> "false", trip_rating |-> "7"]

PutTripBodies == {KyotoUpdate, LimaCoreUpdate, OsakaUpdate, SeoulUpdate}

\* Bodies of PATCH /trips/:id/rating: the ends of the range and their
\* neighbours, a fraction, and a body without the field.
RatingBodies == { [rating |-> v] : v \in {"0", "1", "5", "6", "2.5", UNDEF} }

\* A rating below the range and the one at its upper end.
EndRatingBodies == { [rating |-> v] : v \in {"0", "5"} }

\* The insert taking the owner from the body when it names one (the
\* handler of src/unnamed/part_001 read user_id from the body).
PostTripRowOwnerFromBody(id, uid, body) ==
    [id |-> id, user_firebase_uid |-> Default(body.user_firebase_uid, uid),
     title |-> Param(body.title), country |-> Param(body.country),
     city |-> Param(body.city), start_date |-> Param(body.start_date),
     end_date |-> Param(body.end_date), notes |-> Param(body.notes),
     image_url |-> Param(body.image_url),
     trip_type |-> Param(Default(body.trip_type, "vacation")),
     budget |-> Param(body.budget),
     traveler_count |-> Param(Default(body.traveler_count, "1")),
     is_favorite |-> "false", trip_rating |-> NULL]

\* The row INSERT INTO trips ... RETURNING * of POST /trips yields: the owner
\* is req.user.uid; is_favorite and trip_rating take their column defaults.
PostTripRow(id, uid, body) ==
    [id |-> id, user_firebase_uid |-> uid,
     title |-> Param(body.title), country |-> Param(body.country),
     city |-> Param(body.city), start_date |-> Param(body.start_date),
     end_date |-> Param(body.end_date), notes |-> Param(body.notes),
     image_url |-> Param(body.image_url),
     trip_type |-> Param(Default(body.trip_type, "vacation")),
     budget |-> Param(body.budget),
     traveler_count |-> Param(Default(body.traveler_count, "1")),
     is_favorite |-> "false", trip_rating |-> NULL]

\* A handler holding its client, inside its try block.
InHandler(s, route) == reqs[s].pc = "query" /\ reqs[s].route = route

\* A handler without its finally block: the client stays checked out.
NoRelease == checkedOut' = checkedOut

\* finally { client.release() }
Release == checkedOut' = checkedOut - 1

\* app.post("/trips")
PostTrips(s) ==
    /\ InHandler(s, "POST /trips")
    /\ LET r == reqs[s]
           row == PostTripRow(nextTripId, r.user.uid, r.body)
       IN  IF storeUp /\ TripRowAccepted(row)
             THEN /\ trips' = trips \cup {row}
                  /\ nextTripId' = nextTripId + 1
                  /\ reqs' = [reqs EXCEPT ![s] = Answered(r, 200, [row |-> row])]
             ELSE /\ reqs' = [reqs EXCEPT ![s] = Answered(r, 500, StoreError)]
                  /\ UNCHANGED <<trips, nextTripId>>
    /\ Release
    /\ UNCHANGED <<users, destinations, photos, user_profiles, nextDestId,
                   nextPhotoId, storeUp>>

\* COUNT(DISTINCT ...) over the LEFT JOINs of the trip queries.
TripCounts(t) ==
    [destination_count |-> Cardinality({d \in destinations : d.trip_id = t.id}),
     photo_count |-> Cardinality({p \in photos : p.trip_id = t.id}),
     completed_destinations |->
        Cardinality({d \in destinations : d.trip_id = t.id /\ d.is_completed = "true"})]

\* The list without its WHERE clause (the unfiltered branch of
\* src/unnamed/part_001).
SelectAllTrips(tbl, uid) == tbl

\* SELECT t.*, ... FROM trips t ... WHERE t.user_firebase_uid = $1 GROUP BY t.id
SelectTripsOfUser(tbl, uid) == {t \in tbl : t.user_firebase_uid = uid}

\* Rank of a date under ORDER BY start_date DESC: NULL sorts first.
DescRank(d) ==
    CASE d = NULL -> 0
      [] d = "2025-06-01" -> 1
      [] d = "2025-04-10" -> 2
      [] OTHER -> 3

\* The orders in which a query may return the rows of S: every sequence of
\* all of them that respects rank (the order among ties is the store's).
OrderedBy(S, rank) ==
    {q \in [1..Cardinality(S) -> S] :
        \A i, j \in DOMAIN q : i < j => q[i] # q[j] /\ rank[q[i]] <= rank[q[j]]}

\* ORDER BY t.start_date DESC
ByStartDateDesc(S) == OrderedBy(S, [t \in S |-> DescRank(t.start_date)])

\* app.get("/trips")
GetTrips(s) ==
    /\ InHandler(s, "GET /trips")
    /\ LET r == reqs[s]
       IN  IF storeUp
             THEN \E rows \in ByStartDateDesc(SelectTripsOfUser(trips, r.user.uid)) :
                    reqs' = [reqs EXCEPT ![s] = Answered(r, 200,
                        [rows |-> [i \in DOMAIN rows |-> rows[i] @@ TripCounts(rows[i])]])]
             ELSE reqs' = [reqs EXCEPT ![s] = Answered(r, 500, StoreError)]
    /\ Release
    /\ UNCHANGED <<tables, serials, storeUp>>

\* app.get("/trips/:id")
GetTripsId(s) ==
    /\ InHandler(s, "GET /trips/:id")
    /\ LET r == reqs[s]
           rows == TripById(trips, r.id)
       IN  reqs' = [reqs EXCEPT ![s] =
              IF ~storeUp THEN Answered(r, 500, StoreError)
              ELSE IF rows = {} THEN Answered(r, 404, [error |-> "Trip not found"])
              ELSE LET t == CHOOSE t \in rows : TRUE
                   IN  Answered(r, 200, [row |-> t @@ TripCounts(t)])]
    /\ Release
    /\ UNCHANGED <<tables, serials, storeUp>>

\* PUT /trips/:id without the ownership test, as the handler was before it
\* got one (src/unnamed/part_002).
PutTripDeniedNoOwner(checkRows, uid) ==
    IF checkRows = {} THEN 404 ELSE 0

\* The two early returns of PUT /trips/:id on checkResult, the rows of
\* SELECT user_firebase_uid FROM trips WHERE id = $1; 0 lets the update run.
PutTripDenied(checkRows, uid) ==
    IF checkRows = {} THEN 404
    ELSE IF \E t \in checkRows : t.user_firebase_uid # uid THEN 403
    ELSE 0

\* "Clean the data types" and the SET list of the UPDATE of PUT /trips/:id.
PutTripRow(t, body) ==
    LET cleanBudget == IF body.budget # "" /\ body.budget # NULL
                         THEN parseFloat(body.budget) ELSE NULL
        cleanTravelerCount == IF Truthy(body.traveler_count)
                                THEN parseInt(body.traveler_count) ELSE "1"
        cleanTripRating == IF body.trip_rating # "" /\ body.trip_rating # NULL
                             THEN parseInt(body.trip_rating) ELSE NULL
        cleanIsFavorite == Boolean(body.is_favorite)
    IN  [t EXCEPT !.title = Param(body.title), !.country = Param(body.country),
                  !.city = Param(body.city), !.start_date = Param(body.start_date),
                  !.end_date = Param(body.end_date), !.notes = Param(body.notes),
                  !.image_url = Param(body.image_url),
                  !.trip_type = IF Param(body.trip_type) # NULL
                                  THEN body.trip_type ELSE t.trip_type,
                  !.budget = cleanBudget,
                  !.traveler_count = cleanTravelerCount,
                  !.is_favorite = cleanIsFavorite,
                  !.trip_rating = cleanTripRating]

\* app.put("/trips/:id"), first statement: the existence and ownership check.
PutTripsIdCheck(s) ==
    /\ InHandler(s, "PUT /trips/:id")
    /\ LET r == reqs[s]
           denied == PutTripDenied(TripById(trips, r.id), r.user.uid)
       IN  IF ~storeUp
             THEN reqs' = [reqs EXCEPT ![s] = Answered(r, 500, StoreError)] /\ Release
           ELSE IF denied = 404
             THEN reqs' = [reqs EXCEPT ![s] =
                      Answered(r, 404, [error |-> "Trip not found"])] /\ Release
           ELSE IF denied = 403
             THEN reqs' = [reqs EXCEPT ![s] =
                      Answered(r, 403, [error |-> "Not authorized to edit this trip"])]
                  /\ Release
           ELSE reqs' = [reqs EXCEPT ![s].pc = "update"] /\ UNCHANGED checkedOut
    /\ UNCHANGED <<tables, serials, storeUp>>

\* app.put("/trips/:id"), second statement: UPDATE trips SET ... WHERE id = $13.
PutTripsIdUpdate(s) ==
    /\ reqs[s].pc = "update" /\ reqs[s].route = "PUT /trips/:id"
    /\ LET r == reqs[s]
           new == {PutTripRow(t, r.body) : t \in TripById(trips, r.id)}
       IN  IF storeUp /\ \A t \in new : TripRowAccepted(t)
             THEN /\ trips' = (trips \ TripById(trips, r.id)) \cup new
                  /\ reqs' = [reqs EXCEPT ![s] =
                        Answered(r, 200, [message |-> "Trip updated successfully"])]
             ELSE /\ reqs' = [reqs EXCEPT ![s] =
                        Answered(r, 500, [error |-> "Database error"])]
                  /\ UNCHANGED trips
    /\ Release
    /\ UNCHANGED <<users, destinations, photos, user_profiles, serials, storeUp>>

\* NOT b of SQL.
SqlNot(b) == CASE b = "true" -> "false" [] b = "false" -> "true" [] OTHER -> NULL

\* UPDATE trips SET is_favorite = NOT is_favorite WHERE id = $1
ToggleFavoriteSql(tbl, id) ==
    {IF t.id = id THEN [t EXCEPT !.is_favorite = SqlNot(t.is_favorite)] ELSE t : t \in tbl}

\* app.patch("/trips/:id/favorite"): result.rows[0] is undefined when no row
\* matched, and reading is_favorite of it throws into the catch block.
PatchTripsIdFavorite(s) ==
    /\ InHandler(s, "PATCH /trips/:id/favorite")
    /\ LET r == reqs[s]
           after == ToggleFavoriteSql(trips, r.id)
           returning == TripById(after, r.id)
       IN  IF ~storeUp
             THEN /\ reqs' = [reqs EXCEPT ![s] = Answered(r, 500, StoreError)]
                  /\ UNCHANGED trips
           ELSE /\ trips' = after
                /\ reqs' = [reqs EXCEPT ![s] =
                      IF returning = {}
                        THEN Answered(r, 500, [error |-> "TypeError"])
                        ELSE Answered(r, 200,
                               [is_favorite |-> (CHOOSE t \in returning : TRUE).is_favorite])]
    /\ Release
    /\ UNCHANGED <<users, destinations, photos, user_profiles, serials, storeUp>>

\* if (rating < 1 || rating > 5) return res.status(400)...
RatingRejected(rating) == JsLess(rating, 1) \/ JsGreater(rating, 5)

\* UPDATE trips SET trip_rating = $1 WHERE id = $2
SetRatingSql(tbl, id, rating) ==
    {IF t.id = id THEN [t EXCEPT !.trip_rating = Param(rating)] ELSE t : t \in tbl}

\* app.patch("/trips/:id/rating")
PatchTripsIdRating(s) ==
    /\ InHandler(s, "PATCH /trips/:id/rating")
    /\ LET r == reqs[s]
           rating == r.body.rating
       IN  IF RatingRejected(rating)
             THEN /\ reqs' = [reqs EXCEPT ![s] =
                        Answered(r, 400, [error |-> "Rating must be between 1 and 5"])]
                  /\ UNCHANGED trips
           ELSE IF storeUp /\ IntegerColumn(Param(rating))
             THEN /\ trips' = SetRatingSql(trips, r.id, rating)
                  /\ reqs' = [reqs EXCEPT ![s] =
                        Answered(r, 200, [message |-> "Trip rated successfully"])]
           ELSE /\ reqs' = [reqs EXCEPT ![s] = Answered(r, 500, StoreError)]
                /\ UNCHANGED trips
    /\ Release
    /\ UNCHANGED <<users, destinations, photos, user_profiles, serials, storeUp>>

\* DELETE FROM trips WHERE id = $1
DeleteTripSql(tbl, id) == {t \in tbl : t.id # id}

\* The foreign keys of destinations.trip_id and photos.trip_id (spec section
\* 3: deletion cascades to the dependent rows).
CascadeTrip(tbl, id) == {x \in tbl : x.trip_id # id}

\* app.delete("/trips/:id")
DeleteTripsId(s) ==
    /\ InHandler(s, "DELETE /trips/:id")
    /\ LET r == reqs[s]
       IN  IF storeUp
             THEN /\ trips' = DeleteTripSql(trips, r.id)
                  /\ destinations' = CascadeTrip(destinations, r.id)
                  /\ photos' = CascadeTrip(photos, r.id)
                  /\ reqs' = [reqs EXCEPT ![s] =
                        Answered(r, 200, [message |-> "Trip deleted successfully"])]
             ELSE /\ reqs' = [reqs EXCEPT ![s] = Answered(r, 500, StoreError)]
                  /\ UNCHANGED <<trips, destinations, photos>>
    /\ Release
    /\ UNCHANGED <<users, user_profiles, serials, storeUp>>

\* ----------------------------------------------------------- destinations
\* Ids are integers; 0 stands for a NULL or absent id.
DestById(tbl, id) == {d \in tbl : d.id = id}

\* The foreign key of destinations.trip_id and photos.trip_id (spec section
\* 3): a row must name an existing trip.
TripExists(tbl, tripId) == \E t \in tbl : t.id = tripId

\* Bodies of POST /trips/:tripId/destinations.
ShrineDest ==
    [name |-> "Shrine", description |-> "torii", image_url |-> "shrine.png",
     order_index |-> "1", destination_type |-> "sight", address |-> "Fushimi",
     visit_date |-> "2025-04-01", visit_time |-> "10:00", price_range |-> "free",
     priority_level |-> "1", location_lat |-> "35.0", location_lng |-> "135.8"]

CafeDest ==
    [name |-> "Cafe", description |-> UNDEF, image_url |-> UNDEF,
     order_index |-> UNDEF, destination_type |-> UNDEF, address |-> UNDEF,
     visit_date |-> UNDEF, visit_time |-> UNDEF, price_range |-> UNDEF,
     priority_level |-> UNDEF, location_lat |-> UNDEF, location_lng |-> UNDEF]

\* Shrine with another priority, visit date or place in the manual order.
MarketDest == [ShrineDest EXCEPT !.name = "Market", !.priority_level = "2"]

HarborDest == [ShrineDest EXCEPT !.name = "Harbor", !.priority_level = "3"]

GardenDest == [ShrineDest EXCEPT !.name = "Garden", !.visit_date = "2025-04-02"]

TowerDest == [ShrineDest EXCEPT !.name = "Tower", !.order_index = "2"]

ItineraryDests == {MarketDest, HarborDest, GardenDest, TowerDest}

PostDestBodies == {ShrineDest, CafeDest} \cup ItineraryDests

\* Bodies of PUT /destinations/:id.
PutDestBodies ==
    { [name |-> "Museum", description |-> NULL, image_url |-> NULL,
       order_index |-> "2", destination_type |-> UNDEF, address |-> UNDEF,
       visit_date |-> UNDEF, visit_time |-> UNDEF, price_range |-> UNDEF,
       priority_level |-> "2", is_completed |-> "true", location_lat |-> UNDEF,
       location_lng |-> UNDEF] }

\* The row INSERT INTO destinations (...) VALUES (...) stores; is_completed
\* takes its column default.
PostDestRow(id, tripId, body) ==
    [id |-> id, trip_id |-> tripId,
     name |-> Param(body.name), description |-> Param(body.description),
     image_url |-> Param(body.image_url), order_index |-> Param(body.order_index),
     destination_type |-> Param(body.destination_type),
     address |-> Param(body.address), visit_date |-> Param(body.visit_date),
     visit_time |-> Param(body.visit_time), price_range |-> Param(body.price_range),
     priority_level |-> Param(Default(body.priority_level, "3")),
     is_completed |-> "false",
     location_lat |-> Param(body.location_lat),
     location_lng |-> Param(body.location_lng)]

\* app.post("/trips/:tripId/destinations"): the INSERT has no RETURNING
\* clause, so result.rows[0] is undefined and the 201 carries no body.
PostTripsIdDestinations(s) ==
    /\ InHandler(s, "POST /trips/:tripId/destinations")
    /\ LET r == reqs[s]
           row == PostDestRow(nextDestId, r.id, r.body)
       IN  IF storeUp /\ TripExists(trips, r.id)
             THEN /\ destinations' = destinations \cup {row}
                  /\ nextDestId' = nextDestId + 1
                  /\ reqs' = [reqs EXCEPT ![s] = Answered(r, 201, NoResp)]
             ELSE /\ reqs' = [reqs EXCEPT ![s] = Answered(r, 500, StoreError)]
                  /\ UNCHANGED <<destinations, nextDestId>>
    /\ Release
    /\ UNCHANGED <<users, trips, photos, user_profiles, nextTripId, nextPhotoId,
                   storeUp>>

\* The column set from the parameter alone: column = $n.
SetFromParam(v, old) == Param(v)

\* COALESCE($n, column)
Coalesce(v, old) == IF Param(v) # NULL THEN v ELSE old

\* The SET list of the UPDATE of PUT /destinations/:id.
PutDestRow(d, body) ==
    [d EXCEPT !.name = Param(body.name), !.description = Param(body.description),
              !.image_url = Param(body.image_url),
              !.order_index = Param(body.order_index),
              !.destination_type = Coalesce(body.destination_type, d.destination_type),
              !.address = Coalesce(body.address, d.address),
              !.visit_date = Coalesce(body.visit_date, d.visit_date),
              !.visit_time = Coalesce(body.visit_time, d.visit_time),
              !.price_range = Coalesce(body.price_range, d.price_range),
              !.priority_level = Coalesce(body.priority_level, d.priority_level),
              !.is_completed = Coalesce(body.is_completed, d.is_completed),
              !.location_lat = Coalesce(body.location_lat, d.location_lat),
              !.location_lng = Coalesce(body.location_lng, d.location_lng)]

\* app.put("/destinations/:id")
PutDestinationsId(s) ==
    /\ InHandler(s, "PUT /destinations/:id")
    /\ LET r == reqs[s]
       IN  IF storeUp
             THEN /\ destinations' =
                        {IF d.id = r.id THEN PutDestRow(d, r.body) ELSE d : d \in destinations}
                  /\ reqs' = [reqs EXCEPT ![s] =
                        Answered(r, 200, [message |-> "Destination updated successfully"])]
             ELSE /\ reqs' = [reqs EXCEPT ![s] = Answered(r, 500, StoreError)]
                  /\ UNCHANGED destinations
    /\ Release
    /\ UNCHANGED <<users, trips, photos, user_profiles, serials, storeUp>>

\* UPDATE destinations SET is_completed = NOT is_completed WHERE id = $1
ToggleCompletedSql(tbl, id) ==
    {IF d.id = id THEN [d EXCEPT !.is_completed = SqlNot(d.is_completed)] ELSE d : d \in tbl}

\* app.patch("/destinations/:id/complete"): as for the favorite toggle,
\* result.rows[0] is undefined when no row matched.
PatchDestinationsIdComplete(s) ==
    /\ InHandler(s, "PATCH /destinations/:id/complete")
    /\ LET r == reqs[s]
           after == ToggleCompletedSql(destinations, r.id)
           returning == DestById(after, r.id)
       IN  IF ~storeUp
             THEN /\ reqs' = [reqs EXCEPT ![s] = Answered(r, 500, StoreError)]
                  /\ UNCHANGED destinations
           ELSE /\ destinations' = after
                /\ reqs' = [reqs EXCEPT ![s] =
                      IF returning = {}
                        THEN Answered(r, 500, [error |-> "TypeError"])
                        ELSE Answered(r, 200,
                               [is_completed |-> (CHOOSE d \in returning : TRUE).is_completed])]
    /\ Release
    /\ UNCHANGED <<users, trips, photos, user_profiles, serials, storeUp>>

\* The foreign key of photos.destination_id (spec section 3: nullable, the
\* photo lives as long as its trip): deleting the destination clears it.
ClearDestination(tbl, id) ==
    {IF p.destination_id = id THEN [p EXCEPT !.destination_id = 0] ELSE p : p \in tbl}

\* app.delete("/destinations/:id")
DeleteDestinationsId(s) ==
    /\ InHandler(s, "DELETE /destinations/:id")
    /\ LET r == reqs[s]
       IN  IF storeUp
             THEN /\ destinations' = {d \in destinations : d.id # r.id}
                  /\ photos' = ClearDestination(photos, r.id)
                  /\ reqs' = [reqs EXCEPT ![s] =
                        Answered(r, 200, [message |-> "Destination deleted successfully"])]
             ELSE /\ reqs' = [reqs EXCEPT ![s] = Answered(r, 500, StoreError)]
                  /\ UNCHANGED <<destinations, photos>>
    /\ Release
    /\ UNCHANGED <<users, trips, user_profiles, serials, storeUp>>

\* ----------------------------------------------------------------- photos
\* Bodies of POST /trips/:tripId/photos: a trip-level photo, and one of a
\* destination.
PostPhotoBodies ==
    { [image_url |-> "p.png", caption |-> "view", destination_id |-> d] : d \in 0..1 }

\* The row INSERT INTO photos ... RETURNING * yields; `destination_id || null`
\* turns an absent or zero id into NULL.
PostPhotoRow(id, tripId, body) ==
    [id |-> id, trip_id |-> tripId, image_url |-> Param(body.image_url),
     caption |-> Param(body.caption), destination_id |-> body.destination_id]

\* app.post("/trips/:tripId/photos")
PostTripsIdPhotos(s) ==
    /\ InHandler(s, "POST /trips/:tripId/photos")
    /\ LET r == reqs[s]
           row == PostPhotoRow(nextPhotoId, r.id, r.body)
       IN  IF /\ storeUp
              /\ TripExists(trips, r.id)
              /\ row.destination_id # 0 => DestById(destinations, row.destination_id) # {}
             THEN /\ photos' = photos \cup {row}
                  /\ nextPhotoId' = nextPhotoId + 1
                  /\ reqs' = [reqs EXCEPT ![s] = Answered(r, 201, [row |-> row])]
             ELSE /\ reqs' = [reqs EXCEPT ![s] = Answered(r, 500, StoreError)]
                  /\ UNCHANGED <<photos, nextPhotoId>>
    /\ Release
    /\ UNCHANGED <<users, trips, destinations, user_profiles, nextTripId,
                   nextDestId, storeUp>>

\* app.delete("/photos/:id")
DeletePhotosId(s) ==
    /\ InHandler(s, "DELETE /photos/:id")
    /\ LET r == reqs[s]
       IN  IF storeUp
             THEN /\ photos' = {p \in photos : p.id # r.id}
                  /\ reqs' = [reqs EXCEPT ![s] =
                        Answered(r, 200, [message |-> "Photo deleted successfully"])]
             ELSE /\ reqs' = [reqs EXCEPT ![s] = Answered(r, 500, StoreError)]
                  /\ UNCHANGED photos
    /\ Release
    /\ UNCHANGED <<users, trips, destinations, user_profiles, serials, storeUp>>

\* --------------------------------------------------------------- listings
\* The list ordered on the manual order alone: ORDER BY order_index ASC, as
\* the list of src/unnamed/part_000 had it.
DestRankByOrderIndex(d) ==
    IF d.order_index = NULL THEN 9 ELSE Tenths(d.order_index) \div 10

\* An ascending sort key of an integer column: NULL sorts last.
IntRank(v) == IF v = NULL THEN 9 ELSE Tenths(v) \div 10

\* An ascending sort key of a date column: NULL sorts last.
DateRank(d) ==
    CASE d = NULL -> 9
      [] d = "2025-04-01" -> 1
      [] d = "2025-04-02" -> 2
      [] OTHER -> 3

\* ORDER BY priority_level ASC, visit_date ASC, order_index ASC, as one key.
DestRank(d) ==
    100 * IntRank(d.priority_level) + 10 * DateRank(d.visit_date)
        + IntRank(d.order_index)

\* The list without its WHERE clause.
SelectAllDestinations(tbl, tripId) == tbl

\* SELECT * FROM destinations WHERE trip_id = $1
SelectDestinationsOfTrip(tbl, tripId) == {d \in tbl : d.trip_id = tripId}

\* The rows of both destination lists, in an order the query may yield.
DestinationList(tripId) ==
    LET S == SelectDestinationsOfTrip(destinations, tripId)
    IN  OrderedBy(S, [d \in S |-> DestRank(d)])

\* app.get("/destinations"): trip_id comes from the query string.
GetDestinations(s) ==
    /\ InHandler(s, "GET /destinations")
    /\ LET r == reqs[s]
       IN  IF storeUp
             THEN \E rows \in DestinationList(r.id) :
                    reqs' = [reqs EXCEPT ![s] = Answered(r, 200, [rows |-> rows])]
             ELSE reqs' = [reqs EXCEPT ![s] = Answered(r, 500, StoreError)]
    /\ Release
    /\ UNCHANGED <<tables, serials, storeUp>>

\* app.get("/trips/:id/destinations")
GetTripsIdDestinations(s) ==
    /\ InHandler(s, "GET /trips/:id/destinations")
    /\ LET r == reqs[s]
       IN  IF storeUp
             THEN \E rows \in DestinationList(r.id) :
                    reqs' = [reqs EXCEPT ![s] = Answered(r, 200, [rows |-> rows])]
             ELSE reqs' = [reqs EXCEPT ![s] = Answered(r, 500, StoreError)]
    /\ Release
    /\ UNCHANGED <<tables, serials, storeUp>>

\* SELECT * FROM photos WHERE trip_id = $1
SelectPhotosOfTrip(tbl, tripId) == {p \in tbl : p.trip_id = tripId}

\* app.get("/trips/:tripId/photos"): ORDER BY uploaded_at DESC, a column no
\* handler writes; the order among the rows is the store's.
GetTripsIdPhotos(s) ==
    /\ InHandler(s, "GET /trips/:tripId/photos")
    /\ LET r == reqs[s]
           S == SelectPhotosOfTrip(photos, r.id)
       IN  IF storeUp
             THEN \E rows \in OrderedBy(S, [p \in S |-> 0]) :
                    reqs' = [reqs EXCEPT ![s] = Answered(r, 200, [rows |-> rows])]
             ELSE reqs' = [reqs EXCEPT ![s] = Answered(r, 500, StoreError)]
    /\ Release
    /\ UNCHANGED <<tables, serials, storeUp>>

\* ------------------------------------------------------------- statistics
\* The rows of destinations and photos the LEFT JOINs of the statistics
\* query attach to the trip; none when no trip has the id.
JoinedTo(tbl, tripId) ==
    {x \in tbl : x.trip_id = tripId /\ TripExists(trips, tripId)}

\* Pairs (completed, total), total up to 100, for which the double
\* (completed / total) * 100 lies just below the half it equals exactly:
\* (23 / 40) * 100 is 57.49999999999999.
ProductBelowHalf == {<<23, 40>>, <<46, 80>>}

\* Math.round((completed / total) * 100): the nearest integer, a half going
\* up, of the double the product yields.
MathRoundPercent(completed, total) ==
    IF <<completed, total>> \in ProductBelowHalf
      THEN (100 * completed) \div total
      ELSE (200 * completed + total) \div (2 * total)

\* stats.total_destinations > 0 ? Math.round(...) : 0; the counts arrive as
\* digit strings and the comparison and the division read them as numbers.
ProgressPercentage(completed, total) ==
    IF total > 0 THEN MathRoundPercent(completed, total) ELSE 0

\* The one row of the aggregate query of GET /trips/:id/stats, with the
\* percentage the handler adds.
StatsRow(tripId) ==
    LET d == JoinedTo(destinations, tripId)
        total == Cardinality(d)
        completed == Cardinality({x \in d : x.is_completed = "true"})
    IN  [total_destinations |-> total,
         completed_destinations |-> completed,
         total_photos |-> Cardinality(JoinedTo(photos, tripId)),
         must_see_destinations |-> Cardinality({x \in d : x.priority_level = "1"}),
         progress_percentage |-> ProgressPercentage(completed, total)]

\* app.get("/trips/:id/stats")
GetTripsIdStats(s) ==
    /\ InHandler(s, "GET /trips/:id/stats")
    /\ LET r == reqs[s]
       IN  reqs' = [reqs EXCEPT ![s] =
              IF storeUp THEN Answered(r, 200, StatsRow(r.id))
              ELSE Answered(r, 500, StoreError)]
    /\ Release
    /\ UNCHANGED <<tables, serials, storeUp>>

\* --------------------------------------------------------------- profiles
\* The columns of user_profiles a PUT writes from the body.  created_at and
\* updated_at, which the statements set to NOW(), are left out of the rows.
ProfileFields ==
    {"display_name", "location", "location_lat", "location_lng", "travel_style",
     "favorite_destinations", "bio", "profile_picture_url"}

\* Bodies of PUT /user/profile: every field given, and the name alone.
AnaProfile ==
    [display_name |-> "Ana", location |-> "Lisbon", location_lat |-> "38.7",
     location_lng |-> "-9.1", travel_style |-> "slow",
     favorite_destinations |-> "Kyoto", bio |-> "hello",
     profile_picture_url |-> "ana.png"]

BenProfile ==
    [display_name |-> "Ben", location |-> UNDEF, location_lat |-> UNDEF,
     location_lng |-> UNDEF, travel_style |-> UNDEF,
     favorite_destinations |-> UNDEF, bio |-> UNDEF,
     profile_picture_url |-> UNDEF]

PutProfileBodies == {AnaProfile, BenProfile}

ProfileOf(tbl, uid) == {p \in tbl : p.firebase_uid = uid}

\* The parameters $1..$9 of both statements of PUT /user/profile, as a row.
ProfileRow(uid, body) ==
    [f \in ProfileFields \cup {"firebase_uid"} |->
        IF f = "firebase_uid" THEN uid ELSE Param(body[f])]

\* The primary key of user_profiles (spec section 3): one row a subject.
ProfileKeyFree(tbl, uid) == ProfileOf(tbl, uid) = {}

\* The update without its WHERE clause.
UpdateEveryProfileSql(tbl, uid, body) ==
    {ProfileRow(p.firebase_uid, body) : p \in tbl}

\* UPDATE user_profiles SET display_name = $2, ... WHERE firebase_uid = $1
UpdateProfileSql(tbl, uid, body) ==
    {IF p.firebase_uid = uid THEN ProfileRow(uid, body) ELSE p : p \in tbl}

\* app.get("/user/profile"): the selected columns leave firebase_uid out.
GetUserProfile(s) ==
    /\ InHandler(s, "GET /user/profile")
    /\ LET r == reqs[s]
           rows == ProfileOf(user_profiles, r.user.uid)
       IN  reqs' = [reqs EXCEPT ![s] =
              IF ~storeUp THEN Answered(r, 500, StoreError)
              ELSE IF rows = {} THEN Answered(r, 404, [message |-> "Profile not found"])
              ELSE LET p == CHOOSE p \in rows : TRUE
                   IN  Answered(r, 200, [f \in ProfileFields |-> p[f]])]
    /\ Release
    /\ UNCHANGED <<tables, serials, storeUp>>

\* app.put("/user/profile"), first statement: does the profile exist.
PutUserProfileCheck(s) ==
    /\ InHandler(s, "PUT /user/profile")
    /\ LET r == reqs[s]
       IN  IF ~storeUp
             THEN reqs' = [reqs EXCEPT ![s] = Answered(r, 500, StoreError)] /\ Release
           ELSE /\ reqs' = [reqs EXCEPT ![s].pc =
                      IF ProfileOf(user_profiles, r.user.uid) = {}
                        THEN "insert" ELSE "update"]
                /\ UNCHANGED checkedOut
    /\ UNCHANGED <<tables, serials, storeUp>>

\* app.put("/user/profile"), the branch of checkResult.rows.length === 0:
\* INSERT INTO user_profiles ... RETURNING *
PutUserProfileInsert(s) ==
    /\ reqs[s].pc = "insert" /\ reqs[s].route = "PUT /user/profile"
    /\ LET r == reqs[s]
           row == ProfileRow(r.user.uid, r.body)
       IN  IF storeUp /\ ProfileKeyFree(user_profiles, r.user.uid)
             THEN /\ user_profiles' = user_profiles \cup {row}
                  /\ reqs' = [reqs EXCEPT ![s] = Answered(r, 201,
                        [message |-> "Profile created successfully", profile |-> <<row>>])]
             ELSE /\ reqs' = [reqs EXCEPT ![s] = Answered(r, 500, StoreError)]
                  /\ UNCHANGED user_profiles
    /\ Release
    /\ UNCHANGED <<users, trips, destinations, photos, serials, storeUp>>

\* app.put("/user/profile"), the other branch: UPDATE ... RETURNING *;
\* updateResult.rows[0] is undefined when the row is gone.
PutUserProfileUpdate(s) ==
    /\ reqs[s].pc = "update" /\ reqs[s].route = "PUT /user/profile"
    /\ LET r == reqs[s]
           after == UpdateProfileSql(user_profiles, r.user.uid, r.body)
           returning == ProfileOf(after, r.user.uid)
       IN  IF storeUp
             THEN /\ user_profiles' = after
                  /\ reqs' = [reqs EXCEPT ![s] = Answered(r, 200,
                        [message |-> "Profile updated successfully",
                         profile |-> IF returning = {} THEN <<>>
                                     ELSE <<CHOOSE p \in returning : TRUE>>])]
             ELSE /\ reqs' = [reqs EXCEPT ![s] = Answered(r, 500, StoreError)]
                  /\ UNCHANGED user_profiles
    /\ Release
    /\ UNCHANGED <<users, trips, destinations, photos, serials, storeUp>>

\* The one row of the aggregate query of GET /user/profile/stats, with the
\* rate the handler adds.
UserStatsRow(uid) ==
    LET t == {x \in trips : x.user_firebase_uid = uid}
        d == {x \in destinations : \E y \in t : y.id = x.trip_id}
        p == {x \in photos : \E y \in t : y.id = x.trip_id}
        total == Cardinality(d)
        completed == Cardinality({x \in d : x.is_completed = "true"})
    IN  [total_trips |-> Cardinality(t),
         highly_rated_trips |-> Cardinality({x \in t : x.trip_rating \in {"4", "5"}}),
         total_destinations |-> total,
         completed_destinations |-> completed,
         total_photos |-> Cardinality(p),
         countries_visited |-> Cardinality({x.country : x \in t} \ {NULL}),
         completion_rate |-> ProgressPercentage(completed, total)]

\* app.get("/user/profile/stats")
GetUserProfileStats(s) ==
    /\ InHandler(s, "GET /user/profile/stats")
    /\ LET r == reqs[s]
       IN  reqs' = [reqs EXCEPT ![s] =
              IF storeUp THEN Answered(r, 200, UserStatsRow(r.user.uid))
              ELSE Answered(r, 500, StoreError)]
    /\ Release
    /\ UNCHANGED <<tables, serials, storeUp>>

\* ------------------------------------------------------- specifications
TripRoutes ==
    {"POST /trips", "GET /trips", "GET /trips/:id", "PUT /trips/:id",
     "PATCH /trips/:id/favorite", "PATCH /trips/:id/rating", "DELETE /trips/:id"}

DestRoutes ==
    {"POST /trips/:tripId/destinations", "PUT /destinations/:id",
     "PATCH /destinations/:id/complete", "DELETE /destinations/:id"}

PhotoRoutes == {"POST /trips/:tripId/photos", "DELETE /photos/:id"}

ProfileRoutes == {"GET /user/profile", "PUT /user/profile"}

ListRoutes ==
    {"GET /destinations", "GET /trips/:id/destinations", "GET /trips/:tripId/photos"}

\* The bodies a route reads.
BodiesOf(route) ==
    CASE route = "POST /trips" -> PostTripBodies
      [] route = "PUT /trips/:id" -> PutTripBodies
      [] route = "PATCH /trips/:id/rating" -> RatingBodies
      [] route = "POST /trips/:tripId/destinations" -> PostDestBodies
      [] route = "PUT /destinations/:id" -> PutDestBodies
      [] route = "POST /trips/:tripId/photos" -> PostPhotoBodies
      [] route = "PUT /user/profile" -> PutProfileBodies
      [] OTHER -> {NoBody}

\* The :id or :tripId values a route is called with.
IdsOf(route) ==
    CASE route \in {"POST /trips", "GET /trips", "GET /user/profile",
                    "PUT /user/profile", "GET /user/profile/stats"} -> {0}
      [] route \in {"PUT /destinations/:id", "PATCH /destinations/:id/complete",
                    "DELETE /destinations/:id"} -> DestIds
      [] route = "DELETE /photos/:id" -> PhotoIds
      [] OTHER -> TripIds

\* Requests on `route` that are not yet answered.
Pending(route) ==
    Cardinality({s \in Slots : reqs[s].route = route
                                /\ reqs[s].pc \notin {"idle", "done", "hung"}})

\* The serials stay within the bounds: a creating request is admitted only
\* while its table has room for the row.
HasRoom(route) ==
    /\ route = "POST /trips" => nextTripId + Pending(route) <= MaxTrips
    /\ route = "POST /trips/:tripId/destinations" =>
            nextDestId + Pending(route) <= MaxDests
    /\ route = "POST /trips/:tripId/photos" =>
            nextPhotoId + Pending(route) <= MaxPhotos

\* No other request is in flight, and s is the first slot: requests are
\* served one after another.
Quiet(s) == s = 1 /\ \A o \in Slots \ {s} : reqs[o].pc = "idle"

\* The headers of the resource specifications: one token a user.
ResourceHeaders == {<<"Bearer", "tok-u1-a">>, <<"Bearer", "tok-u2">>}

\* A client sends the next request once the last one is closed: a route of
\* `routes` with a header of `headers` and any body of the route but `skip`.
SeqRequest(s, routes, headers, skip) ==
    \E route \in routes, header \in headers :
      \E id \in IdsOf(route), body \in BodiesOf(route) \ skip :
        /\ Quiet(s)
        /\ HasRoom(route)
        /\ Arrive(s, route, header, id, body)

\* Every trip route, on trips created from one body.
TripRequest(s) ==
    SeqRequest(s, TripRoutes, ResourceHeaders,
               {PeruTrip, OsakaUpdate, SeoulUpdate}
                   \cup (RatingBodies \ EndRatingBodies))

NextTrips ==
    \E s \in Slots :
        \/ TripRequest(s)
        \/ verifyToken(s)
        \/ poolConnect(s)
        \/ PostTrips(s)
        \/ GetTrips(s)
        \/ GetTripsId(s)
        \/ PutTripsIdCheck(s)
        \/ PutTripsIdUpdate(s)
        \/ PatchTripsIdFavorite(s)
        \/ PatchTripsIdRating(s)
        \/ DeleteTripsId(s)
        \/ Close(s)

SpecTrips == Init /\ [][NextTrips \/ StoreFlip]_vars

\* Creating, updating, reading and deleting single trips.
UpdateRequest(s) ==
    SeqRequest(s, {"POST /trips", "PUT /trips/:id", "GET /trips/:id", "DELETE /trips/:id"},
               ResourceHeaders, {PeruTrip, OsakaUpdate, SeoulUpdate})

NextTripUpdate ==
    \E s \in Slots :
        \/ UpdateRequest(s)
        \/ verifyToken(s)
        \/ poolConnect(s)
        \/ PostTrips(s)
        \/ GetTripsId(s)
        \/ PutTripsIdCheck(s)
        \/ PutTripsIdUpdate(s)
        \/ DeleteTripsId(s)
        \/ Close(s)

SpecTripUpdate == Init /\ [][NextTripUpdate \/ StoreFlip]_vars

\* Creating trips from either body, updating and deleting them, and listing.
ListRequest(s) ==
    SeqRequest(s, {"POST /trips", "GET /trips", "PUT /trips/:id", "DELETE /trips/:id"},
               ResourceHeaders, {LimaCoreUpdate, OsakaUpdate, SeoulUpdate})

NextTripList ==
    \E s \in Slots :
        \/ ListRequest(s)
        \/ verifyToken(s)
        \/ poolConnect(s)
        \/ PostTrips(s)
        \/ GetTrips(s)
        \/ PutTripsIdCheck(s)
        \/ PutTripsIdUpdate(s)
        \/ DeleteTripsId(s)
        \/ Close(s)

SpecTripList == Init /\ [][NextTripList \/ StoreFlip]_vars

\* Any of the headers, on a route that reads and one that writes.
AuthRequest(s) ==
    SeqRequest(s, {"POST /trips", "GET /trips"}, AuthHeaders, {PeruTrip})

NextAuth ==
    \E s \in Slots :
        \/ AuthRequest(s)
        \/ verifyToken(s)
        \/ poolConnect(s)
        \/ PostTrips(s)
        \/ GetTrips(s)
        \/ Close(s)

SpecAuth == Init /\ [][NextAuth \/ StoreFlip]_vars

\* The destination and photo routes, and the creation of trips to attach
\* the rows to.
DestRequest(s) ==
    SeqRequest(s, {"POST /trips"} \cup DestRoutes \cup PhotoRoutes, ResourceHeaders,
               {PeruTrip} \cup ItineraryDests)

NextDest ==
    \E s \in Slots :
        \/ DestRequest(s)
        \/ verifyToken(s)
        \/ poolConnect(s)
        \/ PostTrips(s)
        \/ PostTripsIdDestinations(s)
        \/ PutDestinationsId(s)
        \/ PatchDestinationsIdComplete(s)
        \/ DeleteDestinationsId(s)
        \/ PostTripsIdPhotos(s)
        \/ DeletePhotosId(s)
        \/ Close(s)

SpecDest == Init /\ [][NextDest \/ StoreFlip]_vars

\* One client.
OneUser == {<<"Bearer", "tok-u1-a">>}

\* Trips with shrines and trip-level photos under them, deleted and listed.
CascadeRequest(s) ==
    SeqRequest(s, {"POST /trips", "POST /trips/:tripId/destinations",
                   "POST /trips/:tripId/photos", "DELETE /trips/:id"} \cup ListRoutes,
               OneUser,
               {PeruTrip, CafeDest} \cup ItineraryDests
                   \cup {b \in PostPhotoBodies : b.destination_id # 0})

NextCascade ==
    \E s \in Slots :
        \/ CascadeRequest(s)
        \/ verifyToken(s)
        \/ poolConnect(s)
        \/ PostTrips(s)
        \/ PostTripsIdDestinations(s)
        \/ PostTripsIdPhotos(s)
        \/ DeleteTripsId(s)
        \/ GetDestinations(s)
        \/ GetTripsIdDestinations(s)
        \/ GetTripsIdPhotos(s)
        \/ Close(s)

SpecCascade == Init /\ [][NextCascade \/ StoreFlip]_vars

\* Trips created, rated with every rating body, and read back.
RatingRequest(s) ==
    SeqRequest(s, {"POST /trips", "PATCH /trips/:id/rating", "GET /trips/:id"},
               OneUser, {PeruTrip})

NextRating ==
    \E s \in Slots :
        \/ RatingRequest(s)
        \/ verifyToken(s)
        \/ poolConnect(s)
        \/ PostTrips(s)
        \/ PatchTripsIdRating(s)
        \/ GetTripsId(s)
        \/ Close(s)

SpecRating == Init /\ [][NextRating \/ StoreFlip]_vars

\* A store that holds one trip of u1 with `total` destinations, the first
\* `completed` of them completed, as that many requests leave it.
SeededDestinations(total, completed) ==
    {[PostDestRow(i, 1, CafeDest) EXCEPT
         !.is_completed = IF i <= completed THEN "true" ELSE "false"] : i \in 1..total}

InitStats ==
    \E total \in 0..MaxSeeded : \E completed \in 0..total :
        /\ users = {[firebase_uid |-> "u1", email |-> "a@u1"]}
        /\ trips = {PostTripRow(1, "u1", JapanTrip)}
        /\ destinations = SeededDestinations(total, completed)
        /\ photos = {}
        /\ user_profiles = {}
        /\ nextTripId = 2
        /\ nextDestId = total + 1
        /\ nextPhotoId = 1
        /\ reqs = [s \in Slots |-> Idle]
        /\ checkedOut = 0
        /\ storeUp = TRUE

\* The statistics of a trip, and its destinations completed and re-opened.
StatsRequest(s) ==
    SeqRequest(s, {"GET /trips/:id/stats", "PATCH /destinations/:id/complete"},
               OneUser, {})

NextStats ==
    \E s \in Slots :
        \/ StatsRequest(s)
        \/ verifyToken(s)
        \/ poolConnect(s)
        \/ GetTripsIdStats(s)
        \/ PatchDestinationsIdComplete(s)
        \/ Close(s)

SpecStats == InitStats /\ [][NextStats \/ StoreFlip]_vars

\* An itinerary of up to MaxListed destinations, each with its sort keys,
\* built under the first trip and listed by both routes; the other trips
\* take shrines.
ItineraryRequest(s) ==
    \/ SeqRequest(s, {"POST /trips", "GET /destinations", "GET /trips/:id/destinations"},
                  OneUser, {PeruTrip})
    \/ \E header \in OneUser, id \in TripIds, body \in PostDestBodies \ {CafeDest} :
          /\ id # 1 => body = ShrineDest
          /\ Quiet(s)
          /\ nextDestId <= MaxListed
          /\ Arrive(s, "POST /trips/:tripId/destinations", header, id, body)

NextItinerary ==
    \E s \in Slots :
        \/ ItineraryRequest(s)
        \/ verifyToken(s)
        \/ poolConnect(s)
        \/ PostTrips(s)
        \/ PostTripsIdDestinations(s)
        \/ GetDestinations(s)
        \/ GetTripsIdDestinations(s)
        \/ Close(s)

SpecItinerary == Init /\ [][NextItinerary \/ StoreFlip]_vars

\* A trip created, marked favorite, and updated with every body of the PUT.
FieldsRequest(s) ==
    SeqRequest(s, {"POST /trips", "PATCH /trips/:id/favorite", "PUT /trips/:id",
                   "GET /trips/:id"},
               OneUser, {PeruTrip, SeoulUpdate})

NextTripFields ==
    \E s \in Slots :
        \/ FieldsRequest(s)
        \/ verifyToken(s)
        \/ poolConnect(s)
        \/ PostTrips(s)
        \/ PatchTripsIdFavorite(s)
        \/ PutTripsIdCheck(s)
        \/ PutTripsIdUpdate(s)
        \/ GetTripsId(s)
        \/ Close(s)

SpecTripFields == Init /\ [][NextTripFields \/ StoreFlip]_vars

\* Destinations created under the trips, up to MaxListed of them, and
\* updated; the trips after the first take shrines.
DestFieldsRequest(s) ==
    \/ SeqRequest(s, {"POST /trips", "PUT /destinations/:id"}, OneUser, {PeruTrip})
    \/ \E header \in OneUser, id \in TripIds, body \in {ShrineDest, CafeDest} :
          /\ id # 1 => body = ShrineDest
          /\ Quiet(s)
          /\ nextDestId <= MaxListed
          /\ Arrive(s, "POST /trips/:tripId/destinations", header, id, body)

NextDestFields ==
    \E s \in Slots :
        \/ DestFieldsRequest(s)
        \/ verifyToken(s)
        \/ poolConnect(s)
        \/ PostTrips(s)
        \/ PostTripsIdDestinations(s)
        \/ PutDestinationsId(s)
        \/ Close(s)

SpecDestFields == Init /\ [][NextDestFields \/ StoreFlip]_vars

\* The profiles of two users, read and written.
ProfileRequest(s) == SeqRequest(s, ProfileRoutes, ResourceHeaders, {})

NextProfile ==
    \E s \in Slots :
        \/ ProfileRequest(s)
        \/ verifyToken(s)
        \/ poolConnect(s)
        \/ GetUserProfile(s)
        \/ PutUserProfileCheck(s)
        \/ PutUserProfileInsert(s)
        \/ PutUserProfileUpdate(s)
        \/ Close(s)

SpecProfile == Init /\ [][NextProfile \/ StoreFlip]_vars

\* Trips created, updated with every body of the PUT and rated with every
\* rating body.
RangeRequest(s) ==
    SeqRequest(s, {"POST /trips", "PUT /trips/:id", "PATCH /trips/:id/rating"},
               OneUser, {PeruTrip})

NextRange ==
    \E s \in Slots :
        \/ RangeRequest(s)
        \/ verifyToken(s)
        \/ poolConnect(s)
        \/ PostTrips(s)
        \/ PutTripsIdCheck(s)
        \/ PutTripsIdUpdate(s)
        \/ PatchTripsIdRating(s)
        \/ Close(s)

SpecRange == Init /\ [][NextRange \/ StoreFlip]_vars

\* Every protected route of src/api/index.js modelled here.
Routes ==
    TripRoutes \cup DestRoutes \cup PhotoRoutes \cup ListRoutes
        \cup {"GET /trips/:id/stats", "GET /user/profile/stats"} \cup ProfileRoutes

\* As SeqRequest, on the ids of `ids` alone: no row is asked for, and none
\* is created, under another id.
SeqRequestOn(s, routes, headers, skip, ids) ==
    \E route \in routes, header \in headers :
      \E id \in IdsOf(route) \cap ids, body \in BodiesOf(route) \ skip :
        /\ Quiet(s)
        /\ HasRoom(route)
        /\ route = "POST /trips" => nextTripId \in ids
        /\ route = "POST /trips/:tripId/destinations" => nextDestId \in ids
        /\ route = "POST /trips/:tripId/photos" => nextPhotoId \in ids
        /\ Arrive(s, route, header, id, body)

\* Every route, each with the inputs that take its handler down each of its
\* exits, on the first trip, destination and photo: the update of a trip by
\* its owner and by another user, and the rest by one user.
PoolRequest(s) ==
    \/ SeqRequestOn(s, {"PUT /trips/:id"}, ResourceHeaders,
                    {LimaCoreUpdate, OsakaUpdate, SeoulUpdate}, {1})
    \/ SeqRequestOn(s, Routes \ {"PUT /trips/:id"}, OneUser,
                    {PeruTrip, CafeDest, BenProfile} \cup ItineraryDests
                        \cup (RatingBodies \ EndRatingBodies),
                    {0, 1})

NextPool ==
    \E s \in Slots :
        \/ PoolRequest(s)
        \/ verifyToken(s)
        \/ poolConnect(s)
        \/ PostTrips(s)
        \/ GetTrips(s)
        \/ GetTripsId(s)
        \/ PutTripsIdCheck(s)
        \/ PutTripsIdUpdate(s)
        \/ PatchTripsIdFavorite(s)
        \/ PatchTripsIdRating(s)
        \/ DeleteTripsId(s)
        \/ PostTripsIdDestinations(s)
        \/ PutDestinationsId(s)
        \/ PatchDestinationsIdComplete(s)
        \/ DeleteDestinationsId(s)
        \/ PostTripsIdPhotos(s)
        \/ DeletePhotosId(s)
        \/ GetDestinations(s)
        \/ GetTripsIdDestinations(s)
        \/ GetTripsIdPhotos(s)
        \/ GetTripsIdStats(s)
        \/ GetUserProfile(s)
        \/ PutUserProfileCheck(s)
        \/ PutUserProfileInsert(s)
        \/ PutUserProfileUpdate(s)
        \/ GetUserProfileStats(s)
        \/ Close(s)

SpecPool == Init /\ [][NextPool \/ StoreFlip]_vars

\* Requests that overlap: a route of `routes` arrives whatever else is in
\* flight.
OverlapRequest(s, routes, headers, skip) ==
    \E route \in routes, header \in headers :
      \E id \in IdsOf(route), body \in BodiesOf(route) \ skip :
        /\ HasRoom(route)
        /\ Arrive(s, route, header, id, body)

\* Trips created, updated and deleted by requests of one user that overlap.
RaceRequest(s) ==
    OverlapRequest(s, {"POST /trips", "PUT /trips/:id", "DELETE /trips/:id"},
                   OneUser, {PeruTrip, LimaCoreUpdate, OsakaUpdate, SeoulUpdate})

NextRace ==
    \E s \in Slots :
        \/ RaceRequest(s)
        \/ verifyToken(s)
        \/ poolConnect(s)
        \/ PostTrips(s)
        \/ PutTripsIdCheck(s)
        \/ PutTripsIdUpdate(s)
        \/ DeleteTripsId(s)
        \/ Close(s)

SpecRace == Init /\ [][NextRace \/ StoreFlip]_vars

\* The profile of one user written by requests that overlap.
ProfileRaceRequest(s) == OverlapRequest(s, {"PUT /user/profile"}, OneUser, {})

NextProfileRace ==
    \E s \in Slots :
        \/ ProfileRaceRequest(s)
        \/ verifyToken(s)
        \/ poolConnect(s)
        \/ PutUserProfileCheck(s)
        \/ PutUserProfileInsert(s)
        \/ PutUserProfileUpdate(s)
        \/ Close(s)

SpecProfileRace == Init /\ [][NextProfileRace \/ StoreFlip]_vars

\* A client sends any request, whatever else is in flight.
Request(s) ==
    \E route \in Routes, header \in AuthHeaders :
      \E id \in IdsOf(route), body \in BodiesOf(route) :
        /\ HasRoom(route)
        /\ Arrive(s, route, header, id, body)

\* The whole system.  The specifications above are this system with the
\* clients held to one request at a time and to a part of the routes and
\* inputs, so each of their behaviours is one of Spec.
Next ==
    \/ \E s \in Slots :
        \/ Request(s)
        \/ verifyToken(s)
        \/ poolConnect(s)
        \/ PostTrips(s)
        \/ GetTrips(s)
        \/ GetTripsId(s)
        \/ PutTripsIdCheck(s)
        \/ PutTripsIdUpdate(s)
        \/ PatchTripsIdFavorite(s)
        \/ PatchTripsIdRating(s)
        \/ DeleteTripsId(s)
        \/ PostTripsIdDestinations(s)
        \/ PutDestinationsId(s)
        \/ PatchDestinationsIdComplete(s)
        \/ DeleteDestinationsId(s)
        \/ PostTripsIdPhotos(s)
        \/ DeletePhotosId(s)
        \/ GetDestinations(s)
        \/ GetTripsIdDestinations(s)
        \/ GetTripsIdPhotos(s)
        \/ GetTripsIdStats(s)
        \/ GetUserProfile(s)
        \/ PutUserProfileCheck(s)
        \/ PutUserProfileInsert(s)
        \/ PutUserProfileUpdate(s)
        \/ GetUserProfileStats(s)
        \/ Close(s)
    \/ StoreFlip

Spec == Init /\ [][Next]_vars

\* ----------------------------------------------------------- properties
\* The columns of a trips row, without the aggregates a query adds.
TripColumns(row) ==
    [f \in {"id", "user_firebase_uid", "title", "country", "city", "start_date",
            "end_date", "notes", "image_url", "trip_type", "budget",
            "traveler_count", "is_favorite", "trip_rating"} |-> row[f]]

\* Slot s takes a step of its request on `route`.
Steps(s, route) == reqs[s].route = route /\ reqs'[s] # reqs[s]

\* The request of slot s is answered in this step.
AnswersIn(s) == reqs[s].pc # "done" /\ reqs'[s].pc = "done"

\* The subject the identity provider vouches for in the header of r.
TokenSubject(r) == IdTokens[r.header[2]].uid

\* The trip with this id exists and belongs to somebody other than uid.
ForeignTrip(id, uid) == \E t \in trips : t.id = id /\ t.user_firebase_uid # uid

\* C1: PUT /trips/:id answers 404 when no trip has the id and 403 when the
\* trip belongs to another user, and no step of a PUT request on a trip its
\* requester does not own changes the trips table; a later GET /trips/:id
\* answers with the stored row.
C1_PutRejectsAbsentAndForeign ==
    [][\A s \in Slots :
        /\ (Steps(s, "PUT /trips/:id") /\ reqs[s].pc = "query" /\ storeUp) =>
             /\ TripById(trips, reqs[s].id) = {} =>
                    AnswersIn(s) /\ reqs'[s].status = 404
             /\ ForeignTrip(reqs[s].id, TokenSubject(reqs[s])) =>
                    AnswersIn(s) /\ reqs'[s].status = 403
        /\ (Steps(s, "PUT /trips/:id")
              /\ ~\E t \in trips : t.id = reqs[s].id
                                   /\ t.user_firebase_uid = reqs[s].user.uid) =>
             trips' = trips
        /\ (Steps(s, "GET /trips/:id") /\ AnswersIn(s) /\ reqs'[s].status = 200) =>
             TripColumns(reqs'[s].resp.row) \in trips
      ]_vars

\* C1 witness: a PUT by one user on another user's existing trip was
\* answered 403.
C1_Witness ==
    \E s \in Slots :
        /\ reqs[s].route = "PUT /trips/:id" /\ reqs[s].pc = "done"
        /\ reqs[s].status = 403
        /\ ForeignTrip(reqs[s].id, reqs[s].user.uid)

\* C2: DELETE /trips/:id by a user who does not own the trip fails with an
\* authorization error and leaves the trip in the table.
C2_DeleteRejectsForeign ==
    [][\A s \in Slots :
        (Steps(s, "DELETE /trips/:id") /\ reqs[s].pc = "query"
           /\ ForeignTrip(reqs[s].id, TokenSubject(reqs[s]))) =>
             /\ trips' = trips
             /\ storeUp => reqs'[s].status = 403
      ]_vars

\* C3: no step of a PATCH /trips/:id/favorite or PATCH /trips/:id/rating
\* request changes a trip that belongs to another user than the requester.
C3_NarrowMutatorsCheckOwner ==
    [][\A s \in Slots :
        (Steps(s, "PATCH /trips/:id/favorite") \/ Steps(s, "PATCH /trips/:id/rating")) =>
            \A t \in trips : t.user_firebase_uid # reqs[s].user.uid => t \in trips'
      ]_vars

\* C4: GET /trips answers with every trip of the requester, as stored, and
\* with no trip of anybody else.
C4_ListIsOwnTrips ==
    [][\A s \in Slots :
        (Steps(s, "GET /trips") /\ AnswersIn(s) /\ reqs'[s].status = 200) =>
            LET rows == reqs'[s].resp.rows
            IN  /\ {TripColumns(rows[i]) : i \in DOMAIN rows}
                     = {t \in trips : t.user_firebase_uid = TokenSubject(reqs[s])}
                /\ Len(rows) = Cardinality({rows[i].id : i \in DOMAIN rows})
      ]_vars

\* C4 witness: a list was answered with a trip while the table also holds a
\* trip of another user.
C4_Witness ==
    \E s \in Slots :
        /\ reqs[s].route = "GET /trips" /\ reqs[s].pc = "done" /\ reqs[s].status = 200
        /\ Len(reqs[s].resp.rows) >= 1
        /\ \E t \in trips : t.user_firebase_uid # reqs[s].user.uid

\* C8: a POST /trips answered 200 added exactly one row, under a fresh id,
\* owned by the subject of the bearer token whatever the body says, with
\* trip_type "vacation" and traveler_count 1 where the body gives none, and
\* answers with that row; any other outcome adds nothing.
C8_CreateInsertsOwnedRow ==
    [][\A s \in Slots :
        (Steps(s, "POST /trips") /\ reqs[s].pc = "query") =>
            LET r == reqs[s]
                row == reqs'[s].resp.row
            IN  IF reqs'[s].status = 200
                  THEN /\ trips' = trips \cup {row}
                       /\ ~\E t \in trips : t.id = row.id
                       /\ row.user_firebase_uid = TokenSubject(r)
                       /\ row.title = r.body.title
                       /\ row.trip_type =
                            (IF r.body.trip_type = UNDEF THEN "vacation" ELSE r.body.trip_type)
                       /\ row.traveler_count =
                            (IF r.body.traveler_count = UNDEF THEN "1"
                             ELSE r.body.traveler_count)
                  ELSE trips' = trips
      ]_vars

\* C8 witness: a trip was created from a body that names another owner and
\* leaves trip_type and traveler_count out.
C8_Witness ==
    \E s \in Slots :
        /\ reqs[s].route = "POST /trips" /\ reqs[s].pc = "done" /\ reqs[s].status = 200
        /\ reqs[s].body.user_firebase_uid \notin {UNDEF, reqs[s].user.uid}
        /\ reqs[s].body.trip_type = UNDEF
        /\ reqs[s].resp.row \in trips

\* A header the middleware must turn away: absent, not of the Bearer
\* scheme, or carrying a token the identity provider rejects.
BadHeader(h) ==
    \/ Len(h) < 2
    \/ h[1] # "Bearer"
    \/ h[2] \notin {"tok-u1-a", "tok-u1-b", "tok-u2"}

\* C7: a request with a bad header is answered 401 with an error field by
\* the middleware and goes no further, and none of its steps changes a table
\* or a serial.
C7_BadHeaderIs401 ==
    [][\A s \in Slots :
        /\ (BadHeader(reqs'[s].header) /\ reqs'[s].pc \notin {"idle", "verifyToken"}) =>
              /\ reqs'[s].pc = "done"
              /\ reqs'[s].status = 401
              /\ "error" \in DOMAIN reqs'[s].resp
              /\ reqs'[s].user = NoUser
        /\ (reqs'[s] # reqs[s] /\ BadHeader(reqs[s].header) /\ reqs[s].pc # "idle") =>
              /\ tables' = tables
              /\ serials' = serials
              /\ checkedOut' = checkedOut
      ]_vars

\* C7 witness: a POST /trips with a token the identity provider rejects was
\* answered 401.
C7_Witness ==
    \E s \in Slots :
        /\ reqs[s].route = "POST /trips" /\ reqs[s].header = <<"Bearer", "forged">>
        /\ reqs[s].pc = "done" /\ reqs[s].status = 401

\* The middleware authenticates the request of slot s while the store answers.
AuthenticatesIn(s) ==
    /\ reqs[s].pc = "verifyToken" /\ reqs'[s].pc = "connect"
    /\ storeUp

C10_UpsertFailureSwallowed ==
    [][\A s \in Slots :
        (reqs[s].pc = "verifyToken" /\ reqs'[s] # reqs[s]
           /\ ~BadHeader(reqs[s].header) /\ ~storeUp) =>
            LET id == IdTokens[reqs[s].header[2]]
            IN  /\ reqs'[s].pc = "connect"
                /\ reqs'[s].status = 0
                /\ reqs'[s].user = [uid |-> id.uid, email |-> id.email]
                /\ users' = users
      ]_vars

\* C10 witness: a handler holds its client for a subject that has no users
\* row: the insert failed and the request went on.
C10_Witness ==
    \E s \in Slots :
        /\ reqs[s].pc = "query"
        /\ ~\E u \in users : u.firebase_uid = reqs[s].user.uid

\* The row hangs off a trip that belongs to somebody other than uid.
UnderForeignTrip(row, uid) == ForeignTrip(row.trip_id, uid)

\* C5: no step of a destination mutation (POST /trips/:tripId/destinations,
\* PUT, PATCH complete or DELETE /destinations/:id) creates, changes or
\* deletes a destination whose parent trip belongs to another user than the
\* requester.
C5_DestinationMutationsCheckOwner ==
    [][\A s \in Slots :
        (reqs[s].route \in DestRoutes /\ reqs'[s] # reqs[s]) =>
            /\ \A d \in destinations :
                  UnderForeignTrip(d, reqs[s].user.uid) => d \in destinations'
            /\ \A d \in destinations' \ destinations :
                  ~UnderForeignTrip(d, reqs[s].user.uid)
      ]_vars

\* C6: no step of a DELETE /photos/:id request removes a photo of a trip
\* that belongs to another user than the requester.
C6_PhotoDeleteChecksOwner ==
    [][\A s \in Slots :
        Steps(s, "DELETE /photos/:id") =>
            \A p \in photos : UnderForeignTrip(p, reqs[s].user.uid) => p \in photos'
      ]_vars

C12_RatingValidated ==
    [][\A s \in Slots :
        (Steps(s, "PATCH /trips/:id/rating") /\ reqs[s].pc = "query" /\ storeUp) =>
            LET rating == reqs[s].body.rating
            IN  IF rating \in {"1", "2", "3", "4", "5"}
                  THEN /\ reqs'[s].status = 200
                       /\ \A t \in trips' : t.id = reqs[s].id => t.trip_rating = rating
                  ELSE /\ reqs'[s].status = 400
                       /\ trips' = trips
      ]_vars

\* C13: GET /trips/:id/stats answers with the numbers of destinations and
\* of completed destinations of the trip and with progress_percentage equal
\* to 100 * completed / total rounded to the nearest integer (a half going
\* up), 0 when the trip has no destination; the percentage lies in 0..100
\* and completed never exceeds total.
C13_ProgressIsRoundedShare ==
    [][\A s \in Slots :
        (Steps(s, "GET /trips/:id/stats") /\ AnswersIn(s) /\ reqs'[s].status = 200) =>
            LET d == {x \in destinations : x.trip_id = reqs[s].id}
                total == Cardinality(d)
                completed == Cardinality({x \in d : x.is_completed = "true"})
                stats == reqs'[s].resp
            IN  /\ stats.total_destinations = total
                /\ stats.completed_destinations = completed
                /\ completed <= total
                /\ stats.progress_percentage \in 0..100
                /\ stats.progress_percentage =
                     (IF total = 0 THEN 0
                      ELSE (200 * completed + total) \div (2 * total))
      ]_vars

\* The number a digit string stands for.
NumberOf(v) == CHOOSE n \in 0..9 : ToString(n) = v

\* The day of April 2025 a date falls on.
DayOf(d) == CASE d = "2025-04-01" -> 1 [] d = "2025-04-02" -> 2

\* Destination a may stand before b in the itinerary: lower priority_level
\* first, then the earlier visit_date, then the lower order_index.
MayPrecede(a, b) ==
    LET pa == NumberOf(a.priority_level)  pb == NumberOf(b.priority_level)
        da == DayOf(a.visit_date)         db == DayOf(b.visit_date)
        oa == NumberOf(a.order_index)     ob == NumberOf(b.order_index)
    IN  \/ pa < pb
        \/ pa = pb /\ da < db
        \/ pa = pb /\ da = db /\ oa <= ob

\* C14: GET /destinations?trip_id= and GET /trips/:id/destinations answer
\* with every destination of the trip, each once, and with none of another
\* trip, sorted by priority_level, then visit_date, then order_index, all
\* ascending.
C14_ListSortedByPriorityDateOrder ==
    [][\A s \in Slots :
        (reqs[s].route \in {"GET /destinations", "GET /trips/:id/destinations"}
           /\ AnswersIn(s) /\ reqs'[s].status = 200) =>
            LET rows == reqs'[s].resp.rows
            IN  /\ {rows[i] : i \in DOMAIN rows}
                     = {d \in destinations : d.trip_id = reqs[s].id}
                /\ Len(rows) = Cardinality({rows[i].id : i \in DOMAIN rows})
                /\ \A i, j \in DOMAIN rows : i < j => MayPrecede(rows[i], rows[j])
      ]_vars

\* C14 witness: destinations created with priorities 3, 1, 2, in that
\* order and with equal visit dates, were listed as 1, 2, 3.
C14_Witness ==
    \E s \in Slots :
        /\ reqs[s].route = "GET /trips/:id/destinations" /\ reqs[s].pc = "done"
        /\ reqs[s].status = 200
        /\ Len(reqs[s].resp.rows) = 3
        /\ [i \in 1..3 |-> reqs[s].resp.rows[i].priority_level] = <<"1", "2", "3">>
        /\ reqs[s].resp.rows[3].id < reqs[s].resp.rows[1].id
        /\ reqs[s].resp.rows[1].id < reqs[s].resp.rows[2].id
        /\ \A i \in 1..3 : reqs[s].resp.rows[i].visit_date = "2025-04-01"

\* The fields of a trip a PUT replaces, and those it keeps when absent.
CoreTripFields ==
    {"title", "country", "city", "start_date", "end_date", "notes", "image_url"}

EnrichmentTripFields ==
    {"trip_type", "budget", "traveler_count", "is_favorite", "trip_rating"}

\* C15: a PUT /trips/:id answered 200 leaves in the trip, for every
\* enrichment field absent from the body, the value the column had, and
\* sets every core field to the value the body gives.
C15_PutKeepsAbsentEnrichment ==
    [][\A s \in Slots :
        (Steps(s, "PUT /trips/:id") /\ AnswersIn(s) /\ reqs'[s].status = 200) =>
            \A t \in TripById(trips, reqs[s].id) : \E u \in TripById(trips', reqs[s].id) :
                /\ \A f \in EnrichmentTripFields :
                      reqs[s].body[f] = UNDEF => u[f] = t[f]
                /\ \A f \in CoreTripFields : u[f] = reqs[s].body[f]
      ]_vars

\* The fields of a destination a PUT replaces, and those it keeps when
\* absent.
CoreDestFields == {"name", "description", "image_url", "order_index"}

EnrichmentDestFields ==
    {"destination_type", "address", "visit_date", "visit_time", "price_range",
     "priority_level", "is_completed", "location_lat", "location_lng"}

\* C16: a PUT /destinations/:id answered 200 leaves in the destination, for
\* every enrichment field absent from the body, the value the column had,
\* sets name, description, image_url and order_index to the values the body
\* gives, keeps the destination under its trip, and changes no other
\* destination.
C16_PutDestKeepsAbsentEnrichment ==
    [][\A s \in Slots :
        (Steps(s, "PUT /destinations/:id") /\ AnswersIn(s) /\ reqs'[s].status = 200) =>
            /\ \A d \in DestById(destinations, reqs[s].id) :
                 \E u \in DestById(destinations', reqs[s].id) :
                    /\ \A f \in EnrichmentDestFields :
                          reqs[s].body[f] = UNDEF => u[f] = d[f]
                    /\ \A f \in CoreDestFields : u[f] = reqs[s].body[f]
                    /\ u.trip_id = d.trip_id
            /\ {x \in destinations' : x.id # reqs[s].id}
                 = {x \in destinations : x.id # reqs[s].id}
            /\ Cardinality(destinations') = Cardinality(destinations)
      ]_vars

\* C16 witness: a shrine was updated to a museum and kept its address, while
\* the table holds another destination.
C16_Witness ==
    \E s \in Slots :
        /\ reqs[s].route = "PUT /destinations/:id" /\ reqs[s].pc = "done"
        /\ reqs[s].status = 200
        /\ \E d \in destinations :
              /\ d.id = reqs[s].id /\ d.name = "Museum" /\ d.address = "Fushimi"
              /\ reqs[s].body.address = UNDEF
        /\ \E x \in destinations : x.id # reqs[s].id

\* The profile row a body asks for: each field as given, NULL where absent.
AskedProfile(uid, body) ==
    [f \in DOMAIN body \cup {"firebase_uid"} |->
        IF f = "firebase_uid" THEN uid
        ELSE IF body[f] = UNDEF THEN NULL ELSE body[f]]

\* C17: GET /user/profile answers 404 exactly when the requester has no
\* profile row and otherwise with the fields of the row; a PUT /user/profile
\* that finds no row creates it (201) and one that finds a row replaces
\* every field (200), both leaving exactly the row the body asks for; no
\* step of a PUT changes another user's row, and no user ever has two rows.
C17_ProfilePutIsUpsert ==
    [][\A s \in Slots :
        LET r == reqs[s]
            uid == r.user.uid
            mine(tbl) == {p \in tbl : p.firebase_uid = uid}
        IN  /\ (Steps(s, "GET /user/profile") /\ r.pc = "query" /\ storeUp) =>
                  /\ reqs'[s].status = (IF mine(user_profiles) = {} THEN 404 ELSE 200)
                  /\ reqs'[s].status = 200 =>
                        \E p \in mine(user_profiles) :
                            \A f \in DOMAIN reqs'[s].resp : reqs'[s].resp[f] = p[f]
            /\ (Steps(s, "PUT /user/profile") /\ r.pc \in {"insert", "update"} /\ storeUp) =>
                  /\ reqs'[s].status = (IF mine(user_profiles) = {} THEN 201 ELSE 200)
                  /\ mine(user_profiles') = {AskedProfile(uid, r.body)}
            /\ Steps(s, "PUT /user/profile") =>
                  user_profiles' \ mine(user_profiles') = user_profiles \ mine(user_profiles)
            /\ \A p, q \in user_profiles' : p.firebase_uid = q.firebase_uid => p = q
      ]_vars

\* C17 witness: a user's second put replaced a full profile by one with the
\* name alone, while another user has a profile.
C17_Witness ==
    \E s \in Slots :
        /\ reqs[s].route = "PUT /user/profile" /\ reqs[s].pc = "done"
        /\ reqs[s].status = 200 /\ reqs[s].body.location = UNDEF
        /\ \E p \in user_profiles :
              /\ p.firebase_uid = reqs[s].user.uid
              /\ p.display_name = "Ben" /\ p.location = NULL
        /\ \E q \in user_profiles : q.firebase_uid # reqs[s].user.uid

\* The requests that hold a client of the pool: past pool.connect() and not
\* yet answered.
Holders == {s \in Slots : reqs[s].pc \in {"query", "update", "insert"}}

\* C18: the clients checked out of the pool are those of the handlers still
\* running, one each; when no handler is running, none is checked out.
C18_ClientsReleased ==
    /\ checkedOut = Cardinality(Holders)
    /\ (\A s \in Slots : reqs[s].pc \in {"idle", "done", "hung"}) => checkedOut = 0

\* C18 witness: a handler left by an early return (403) and the pool is
\* whole.
C18_Witness ==
    \E s \in Slots :
        /\ reqs[s].route = "PUT /trips/:id" /\ reqs[s].pc = "done"
        /\ reqs[s].status = 403
        /\ checkedOut = 0

\* C19: whatever other requests do between the two statements of a PUT
\* /trips/:id, the step that answers it 200 "Trip updated successfully" is
\* taken while a trip with the id exists and belongs to the requester, and
\* leaves that trip with the title of the body.
C19_PutCheckAndWriteAtomic ==
    [][\A s \in Slots :
        (Steps(s, "PUT /trips/:id") /\ AnswersIn(s) /\ reqs'[s].status = 200) =>
            /\ \E t \in trips : t.id = reqs[s].id
                                /\ t.user_firebase_uid = reqs[s].user.uid
            /\ \E u \in trips' : u.id = reqs[s].id /\ u.title = reqs[s].body.title
      ]_vars

\* C20: a request that passed the middleware is never left without an
\* answer, is answered once, and every step it takes while the store is
\* down answers it 500 with an error field (or 400, where the handler
\* rejects the body before its first statement).
C20_StoreFailureIs500 ==
    [][\A s \in Slots :
        /\ reqs'[s].pc # "hung"
        /\ (reqs[s].pc \in {"connect", "query", "update", "insert"}
              /\ reqs'[s] # reqs[s] /\ ~storeUp) =>
              /\ reqs'[s].pc = "done"
              /\ reqs'[s].status \in {400, 500}
              /\ "error" \in DOMAIN reqs'[s].resp
        /\ (reqs[s].pc = "done" /\ reqs'[s] # reqs[s]) => reqs'[s] = Idle
      ]_vars

\* C21: after every step each photo that names a destination names one of
\* the photo's own trip, and a POST /trips/:tripId/photos answered 201 whose
\* body carries no destination_id stores a photo of the trip with a NULL
\* destination_id.
C21_PhotoDestinationInPhotoTrip ==
    [][/\ \A p \in photos' :
            p.destination_id # 0 =>
                \E d \in destinations' : d.id = p.destination_id
                                         /\ d.trip_id = p.trip_id
       /\ \A s \in Slots :
            (Steps(s, "POST /trips/:tripId/photos") /\ AnswersIn(s)
               /\ reqs'[s].status = 201 /\ reqs[s].body.destination_id = 0) =>
                \E p \in photos' \ photos : p.trip_id = reqs[s].id
                                            /\ p.destination_id = 0
      ]_vars

\* C22: in every state each trip's trip_rating is NULL or an integer from 1
\* to 5.
C22_TripRatingNullOrOneToFive ==
    \A t \in trips : t.trip_rating \in {NULL, "1", "2", "3", "4", "5"}

\* The row a request on `route` with this id addresses is absent.
AddressesNothing(route, id) ==
    IF route \in {"PATCH /trips/:id/favorite", "PATCH /trips/:id/rating",
                  "DELETE /trips/:id"}
      THEN TripById(trips, id) = {}
      ELSE DestById(destinations, id) = {}

\* C23: with the store up, the handler step of PATCH /trips/:id/favorite,
\* PATCH /trips/:id/rating, DELETE /trips/:id, PUT /destinations/:id, PATCH
\* /destinations/:id/complete or DELETE /destinations/:id on an id no row
\* has answers 404 and leaves every table as it was.
C23_AbsentIdIs404 ==
    [][\A s \in Slots :
        (/\ reqs[s].route \in {"PATCH /trips/:id/favorite", "PATCH /trips/:id/rating",
                               "DELETE /trips/:id", "PUT /destinations/:id",
                               "PATCH /destinations/:id/complete",
                               "DELETE /destinations/:id"}
         /\ reqs[s].pc = "query" /\ reqs'[s] # reqs[s]
         /\ storeUp
         /\ AddressesNothing(reqs[s].route, reqs[s].id)) =>
            /\ reqs'[s].pc = "done"
            /\ reqs'[s].status = 404
            /\ tables' = tables
      ]_vars

\* C24: a POST /trips/:tripId/destinations answered 201 carries the row it
\* created: a row with a generated id, the trip_id of the path and, when the
\* body names no priority_level, priority_level 3; and every list of that
\* trip's destinations then holds the row.
C24_PostDestinationReturnsRecord ==
    [][\A s \in Slots :
        (Steps(s, "POST /trips/:tripId/destinations") /\ AnswersIn(s)
           /\ reqs'[s].status = 201) =>
            \E d \in destinations' \ destinations :
                /\ reqs'[s].resp = [row |-> d]
                /\ d.id \in DestIds
                /\ d.trip_id = reqs[s].id
                /\ reqs[s].body.priority_level = UNDEF => d.priority_level = "3"
                /\ \A rows \in DestinationList(reqs[s].id)' :
                      \E i \in DOMAIN rows : rows[i] = d
      ]_vars

\* C25: however the statements of overlapping PUT /user/profile requests of
\* one user interleave, each write statement run while the store is up
\* answers its request 201 or 200, and leaves exactly one profile row of
\* that user.
C25_OverlappingProfilePutsSucceed ==
    [][\A s \in Slots :
        (/\ reqs[s].route = "PUT /user/profile"
         /\ reqs[s].pc \in {"insert", "update"} /\ reqs'[s] # reqs[s]
         /\ storeUp) =>
            /\ reqs'[s].pc = "done"
            /\ reqs'[s].status \in {200, 201}
            /\ Cardinality(ProfileOf(user_profiles', reqs[s].user.uid)) = 1
      ]_vars

====
